---- MODULE Spec2Model ----
(***************************************************************************)
(* Past Forward: the App component (src/App.tsx) and the ImageMorpher      *)
(* component (src/components/ImageMorpher.tsx).                            *)
(*                                                                         *)
(* The React state of App, the promises its handlers leave pending         *)
(* (resizeImage, getUserMedia, transformImageForTimePeriod) and the        *)
(* handlers themselves.  One step of the model is one task of the          *)
(* browser's event loop: a user event, or the settling of a pending        *)
(* promise together with every microtask it triggers.                     *)
(*                                                                         *)
(* Numbers of the slider (sliderValue, opacities) are counted in           *)
(* hundredths, the step of the range input: 200 stands for 2.              *)
(***************************************************************************)
EXTENDS Integers, Sequences, FiniteSets, TLC

VARIABLES
    sourceImage,      \* useState<string | null>, App.tsx:88
    generatedImages,  \* useState<Record<string, GeneratedImage>>, App.tsx:89
    sliderValue,      \* useState<number>, App.tsx:90, in hundredths
    appState,         \* useState<...>, App.tsx:91
    isCameraOpen,     \* useState(false), App.tsx:92
    resizing,         \* files whose resizeImage promise handleFileChange awaits
    cameraRequests,   \* getUserMedia promises handleTakePhotoClick awaits
    batches,          \* one entry per handleGenerateClick run: its six calls
    opacities,        \* ImageMorpher's render: the opacity of each <img>
    download          \* what the step gave the browser to save, App.tsx:206-212

vars == <<sourceImage, generatedImages, sliderValue, appState, isCameraOpen,
          resizing, cameraRequests, batches, opacities, download>>

(***************************************************************************)
(* Bounds of the model.                                                    *)
(***************************************************************************)
\* handleGenerateClick runs that get past their guard
MaxBatches == 1
\* the same, where the calls of a run settle in the order they were issued
MaxOrderedBatches == 2
\* files the user can pick in the file dialog
MaxFiles == 1
\* getUserMedia requests pending at the same time
MaxCameraRequests == 1

\* calls of handleGenerateClick that start a run, one after the other
MaxInvocations == 1

Files == 1..MaxFiles

NULL == "null"

(***************************************************************************)
(* Constants of the program.                                               *)
(***************************************************************************)
TIME_SHIFTS == <<-75, -50, -25, 25, 50, 75>>

\* shift < 0 ? `${shift} years` : `+${shift} years`
TimeLabel(shift) ==
    IF shift < 0 THEN ToString(shift) \o " years"
                 ELSE "+" \o ToString(shift) \o " years"

TIME_LABELS == [i \in DOMAIN TIME_SHIFTS |-> TimeLabel(TIME_SHIFTS[i])]

LabelSet == {TIME_LABELS[i] : i \in DOMAIN TIME_LABELS}

\* the unit of the slider: step="0.01"
Unit == 100

InitialSlider == 2 * Unit

AppStates == {"select-image", "confirm-image", "generating", "results-shown"}

(***************************************************************************)
(* The external collaborators, at their interface.                         *)
(***************************************************************************)
\* resizeImage resolves with canvas.toDataURL('image/jpeg', 0.9) of the file
ResizedDataUrl(file) == "data:image/jpeg;file" \o ToString(file)

\* handleCapture: canvas.toDataURL('image/jpeg') of the video frame
CapturedDataUrl == "data:image/jpeg;camera"

\* how a transformImageForTimePeriod call settles: it resolves with an image
\* URL, rejects with an Error, or rejects with a value that is no Error
Outcomes == {"resolve", "rejectError", "rejectOther"}

\* the image URL the call of run b for the shift at index i resolves with
ResultUrl(b, i) == "url/" \o ToString(b) \o "/" \o ToString(TIME_SHIFTS[i])

\* err.message of the Error the call of run b at index i rejects with
RejectMessage(b, i) == "failed/" \o ToString(b) \o "/" \o ToString(TIME_SHIFTS[i])

(***************************************************************************)
(* GeneratedImage values.                                                  *)
(***************************************************************************)
Pending == [status |-> "pending"]

Done(newImageUrl) == [status |-> "done", url |-> newImageUrl]

\* err instanceof Error ? err.message : 'Generation failed.'
ErrorMessage(outcome, b, i) ==
    IF outcome = "rejectError" THEN RejectMessage(b, i) ELSE "Generation failed."

\* the catch callback spreads the pending entry's fields and sets no error
FailedKeepsFields(errorMessage) == [status |-> "error", url |-> errorMessage]

Failed(errorMessage) == [status |-> "error", error |-> errorMessage]

\* the entry the then / catch callback of a call writes
Landed(outcome, b, i) ==
    IF outcome = "resolve" THEN Done(ResultUrl(b, i))
                           ELSE Failed(ErrorMessage(outcome, b, i))

\* prev => ({ [label]: entry }): the spread of prev is missing
SpreadMissing(prev, label, entry) == [l \in {label} |-> entry]

\* prev => ({ ...prev, [label]: entry })
SpreadWith(prev, label, entry) ==
    [l \in DOMAIN prev \cup {label} |-> IF l = label THEN entry ELSE prev[l]]

\* initialImages: TIME_LABELS.forEach(label => initialImages[label] = pending)
InitialImages == [l \in LabelSet |-> Pending]

EmptyImages == [l \in {} |-> Pending]

(***************************************************************************)
(* ImageMorpher.                                                           *)
(***************************************************************************)
\* labels.map(label => ({label, url: images[label]?.url,
\*                       status: images[label]?.status}))
MorpherImage(images, label) ==
    IF label \in DOMAIN images
      THEN IF "url" \in DOMAIN images[label]
             THEN [label |-> label, status |-> images[label].status,
                   url |-> images[label].url]
             ELSE [label |-> label, status |-> images[label].status]
      ELSE [label |-> label]

\* image.status === 'done' && image.url
IsSuccessful(image) ==
    /\ "status" \in DOMAIN image
    /\ image.status = "done"
    /\ "url" \in DOMAIN image
    /\ image.url # ""

\* .filter(...) over the labels, in the order of the labels
RECURSIVE FilterSuccessful(_, _, _)
FilterSuccessful(images, labels, k) ==
    IF k > Len(labels) THEN <<>>
    ELSE LET image == MorpherImage(images, labels[k])
             rest  == FilterSuccessful(images, labels, k + 1)
         IN  IF IsSuccessful(image) THEN <<image>> \o rest ELSE rest

\* the successful images are listed newest label first
RECURSIVE FilterNewestFirst(_, _, _)
FilterNewestFirst(images, labels, k) ==
    IF k > Len(labels) THEN <<>>
    ELSE LET image == MorpherImage(images, labels[k])
             rest  == FilterNewestFirst(images, labels, k + 1)
         IN  IF IsSuccessful(image) THEN rest \o <<image>> ELSE rest

successfulImagesNewestFirst(images, labels) == FilterNewestFirst(images, labels, 1)

successfulImages(images, labels) == FilterSuccessful(images, labels, 1)

\* handleDownloadCurrentImage: label => ({ label, ...generatedImages[label] })
DownloadImage(images, label) ==
    IF label \in DOMAIN images
      THEN [f \in {"label"} \cup DOMAIN images[label] |->
               IF f \in DOMAIN images[label] THEN images[label][f] ELSE label]
      ELSE [f \in {"label"} |-> label]

\* .filter(img => img.status === 'done' && img.url) over TIME_LABELS
RECURSIVE FilterDownload(_, _)
FilterDownload(images, k) ==
    IF k > Len(TIME_LABELS) THEN <<>>
    ELSE LET img  == DownloadImage(images, TIME_LABELS[k])
             rest == FilterDownload(images, k + 1)
         IN  IF IsSuccessful(img) THEN <<img>> \o rest ELSE rest

\* the successfulImages of handleDownloadCurrentImage
downloadSuccessfulImages(images) == FilterDownload(images, 1)

Abs(x) == IF x < 0 THEN -x ELSE x

\* the test of the distance is missing: 1 - distance for every image
calculateOpacityUnclamped(index, currentValue) ==
    1 * Unit - Abs(currentValue - index * Unit)

\* the fade is eased, not linear: 1 - distance * distance
calculateOpacityEased(index, currentValue) ==
    LET distance == Abs(currentValue - index * Unit)
    IN  IF distance > 1 * Unit THEN 0
                               ELSE 1 * Unit - (distance * distance) \div Unit

\* the fade spans two images on each side: 1 - distance / 2, 0 beyond 2
calculateOpacityWide(index, currentValue) ==
    LET distance == Abs(currentValue - index * Unit)
    IN  IF distance > 2 * Unit THEN 0 ELSE 1 * Unit - distance \div 2

\* index is a whole number, currentValue and the result are in hundredths
calculateOpacity(index, currentValue) ==
    LET distance == Abs(currentValue - index * Unit)
    IN  IF distance > 1 * Unit THEN 0 ELSE 1 * Unit - distance

\* max={successfulImages.length > 1 ? successfulImages.length - 1 : 1}
SliderMax(successful) ==
    IF Len(successful) > 1 THEN (Len(successful) - 1) * Unit ELSE 1 * Unit

\* what App renders of ImageMorpher: nothing unless 'results-shown', the
\* "no images" notice when nothing succeeded, else one <img> per successful
\* image, the image at index k - 1 with opacity opacities[k]
ImageOpacities(state, images, value) ==
    IF state = "results-shown"
      THEN LET successful == successfulImages(images, TIME_LABELS)
           IN  [k \in 1..Len(successful) |-> calculateOpacity(k - 1, value)]
      ELSE <<>>

Render == opacities' = ImageOpacities(appState', generatedImages', sliderValue')

\* the "successfulImages.length === 0" return is missing: the range input is
\* rendered whenever the results are shown
SliderPositionsUnguarded ==
    IF appState = "results-shown"
      THEN 0..SliderMax(successfulImages(generatedImages, TIME_LABELS))
      ELSE {}

\* the positions of the range input, if it is rendered ('results-shown' and
\* some image succeeded): min="0", max, step="0.01"
SliderPositions ==
    IF appState = "results-shown"
      THEN LET successful == successfulImages(generatedImages, TIME_LABELS)
           IN  IF successful # <<>> THEN 0..SliderMax(successful) ELSE {}
      ELSE {}

\* the positions the user moves the slider to in Spec: both ends, a half
\* position and one position more
SliderStops ==
    LET positions == SliderPositions
    IN  {v \in {0, 50, 137, 1 * Unit, 2 * Unit, 3 * Unit, 4 * Unit, 5 * Unit} :
            /\ v \in positions
            /\ v \in {0, 50, 137} \/ v + 1 \notin positions}

(***************************************************************************)
(* handleDownloadCurrentImage.                                             *)
(***************************************************************************)
\* the step was no click on Download Image
NoClick == [clicked |-> FALSE]

\* Download Image was clicked and the handler returned without a link
NothingSaved == [clicked |-> TRUE]

\* Math.round of a value in hundredths: the nearest whole number, a half
\* rounded up
Round(value) == (value + Unit \div 2) \div Unit

\* label.replace(' ', ''): the label without its first space
WithoutSpace(label) ==
    LET shift == TIME_SHIFTS[CHOOSE i \in DOMAIN TIME_LABELS : TIME_LABELS[i] = label]
    IN  IF shift < 0 THEN ToString(shift) \o "years"
                     ELSE "+" \o ToString(shift) \o "years"

\* the link that is clicked: link.href, link.download
Link(image) ==
    [clicked |-> TRUE, href |-> image.url,
     download |-> "past-forward-" \o WithoutSpace(image.label) \o ".jpg"]

\* what handleDownloadCurrentImage gives the browser to save: the link of
\* successfulImages[Math.round(sliderValue)], or nothing
imageToDownload(images, value) ==
    LET successful   == downloadSuccessfulImages(images)
        closestIndex == Round(value)
    IN  IF Len(successful) = 0 THEN NothingSaved
        ELSE IF /\ closestIndex + 1 \in DOMAIN successful
                /\ successful[closestIndex + 1].url # ""
               THEN Link(successful[closestIndex + 1])
               ELSE NothingSaved

(***************************************************************************)
(* Runs of handleGenerateClick.                                            *)
(***************************************************************************)
\* the calls of run b that have not settled
InFlight(b) == {i \in DOMAIN TIME_SHIFTS : batches[b][i] = "inflight"}

\* Promise.race(generationPromises): some promise has settled
AnySettled(run) == \E i \in DOMAIN TIME_SHIFTS : run[i] = "settled"

\* Promise.allSettled(generationPromises): every promise has settled
AllSettled(run) == \A i \in DOMAIN TIME_SHIFTS : run[i] = "settled"

\* the page's own buttons can be clicked: the camera overlay, which covers
\* the whole page while it is rendered (fixed inset-0 z-50), is not open
PageClickable == ~isCameraOpen

Init ==
    /\ sourceImage = NULL
    /\ generatedImages = EmptyImages
    /\ sliderValue = InitialSlider
    /\ appState = "select-image"
    /\ isCameraOpen = FALSE
    /\ resizing = {}
    /\ cameraRequests = 0
    /\ batches = <<>>
    /\ opacities = <<>>
    /\ download = NoClick

(***************************************************************************)
(* Selecting the source image.                                             *)
(***************************************************************************)
\* the file input (rendered in 'select-image') changes: resizeImage starts
handleFileChange(file) ==
    /\ appState = "select-image"
    /\ PageClickable
    /\ file \notin resizing
    /\ resizing' = resizing \cup {file}
    /\ UNCHANGED <<sourceImage, generatedImages, sliderValue, appState,
                   isCameraOpen, cameraRequests, batches>>
    /\ download' = NoClick
    /\ Render

\* resizeImage settles: the rest of handleFileChange runs
ResizeSettle(file, ok) ==
    /\ file \in resizing
    /\ resizing' = resizing \ {file}
    /\ IF ok
         THEN /\ sourceImage' = ResizedDataUrl(file)
              /\ appState' = "confirm-image"
         ELSE UNCHANGED <<sourceImage, appState>>
    /\ UNCHANGED <<generatedImages, sliderValue, isCameraOpen,
                   cameraRequests, batches>>
    /\ download' = NoClick
    /\ Render

\* the Take Photo button (rendered in 'select-image')
handleTakePhotoClick ==
    /\ appState = "select-image"
    /\ PageClickable
    /\ cameraRequests < MaxCameraRequests
    /\ isCameraOpen' = TRUE
    /\ cameraRequests' = cameraRequests + 1
    /\ UNCHANGED <<sourceImage, generatedImages, sliderValue, appState,
                   resizing, batches>>
    /\ download' = NoClick
    /\ Render

\* getUserMedia settles: the rest of handleTakePhotoClick runs
GetUserMediaSettle(ok) ==
    /\ cameraRequests > 0
    /\ cameraRequests' = cameraRequests - 1
    /\ isCameraOpen' = IF ok THEN isCameraOpen ELSE FALSE
    /\ UNCHANGED <<sourceImage, generatedImages, sliderValue, appState,
                   resizing, batches>>
    /\ download' = NoClick
    /\ Render

\* the Capture button of the camera overlay (rendered while isCameraOpen)
handleCapture(ctxOk) ==
    /\ isCameraOpen
    /\ IF ctxOk
         THEN /\ sourceImage' = CapturedDataUrl
              /\ appState' = "confirm-image"
              /\ isCameraOpen' = FALSE
         ELSE UNCHANGED <<sourceImage, appState, isCameraOpen>>
    /\ UNCHANGED <<generatedImages, sliderValue, resizing, cameraRequests,
                   batches>>
    /\ download' = NoClick
    /\ Render

\* the Cancel button of the camera overlay
CancelCamera ==
    /\ isCameraOpen
    /\ isCameraOpen' = FALSE
    /\ UNCHANGED <<sourceImage, generatedImages, sliderValue, appState,
                   resizing, cameraRequests, batches>>
    /\ download' = NoClick
    /\ Render

(***************************************************************************)
(* The batch.                                                              *)
(***************************************************************************)
\* !sourceImage: null, or the empty string
NoSource(image) == image = NULL \/ image = ""

\* the Generate button is rendered and can be clicked:
\* appState === 'confirm-image' && sourceImage
GenerateButton ==
    /\ appState = "confirm-image"
    /\ ~NoSource(sourceImage)
    /\ PageClickable

\* "if (!sourceImage) return" is missing: the run starts whatever the source
handleGenerateClickUnguarded ==
    /\ appState' = "generating"
    /\ generatedImages' = InitialImages
    /\ batches' = Append(batches, [i \in DOMAIN TIME_SHIFTS |-> "inflight"])
    /\ UNCHANGED <<sourceImage, sliderValue, isCameraOpen, resizing,
                   cameraRequests>>
    /\ download' = NoClick
    /\ Render

\* handleGenerateClick up to its await: "if (!sourceImage) return", then
\* 'generating', the all-pending mapping and the six calls issued
handleGenerateClick ==
    /\ IF NoSource(sourceImage)
         THEN UNCHANGED <<appState, generatedImages, batches>>
         ELSE /\ appState' = "generating"
              /\ generatedImages' = InitialImages
              /\ batches' =
                     Append(batches, [i \in DOMAIN TIME_SHIFTS |-> "inflight"])
    /\ UNCHANGED <<sourceImage, sliderValue, isCameraOpen, resizing,
                   cameraRequests>>
    /\ download' = NoClick
    /\ Render

\* Promise.all in place of Promise.allSettled, and a catch callback that
\* throws again: a failed call rejects the await and the run never reaches
\* setAppState('results-shown')
TaskSettleFailFast(b, i, outcome) ==
    /\ b \in DOMAIN batches
    /\ batches[b][i] = "inflight"
    /\ generatedImages' =
           SpreadWith(generatedImages, TIME_LABELS[i], Landed(outcome, b, i))
    /\ batches' = [batches EXCEPT ![b][i] = "settled"]
    /\ appState' = IF AllSettled(batches'[b]) /\ outcome = "resolve"
                     THEN "results-shown" ELSE appState
    /\ UNCHANGED <<sourceImage, sliderValue, isCameraOpen, resizing,
                   cameraRequests>>
    /\ download' = NoClick
    /\ Render

\* the call of run b for TIME_SHIFTS[i] settles: its then / catch callback
\* runs and, when it was the last of the run to settle, Promise.allSettled
\* resolves and the run sets 'results-shown'
TaskSettle(b, i, outcome) ==
    /\ b \in DOMAIN batches
    /\ batches[b][i] = "inflight"
    /\ generatedImages' =
           SpreadWith(generatedImages, TIME_LABELS[i], Landed(outcome, b, i))
    /\ batches' = [batches EXCEPT ![b][i] = "settled"]
    /\ appState' = IF AllSettled(batches'[b]) THEN "results-shown" ELSE appState
    /\ UNCHANGED <<sourceImage, sliderValue, isCameraOpen, resizing,
                   cameraRequests>>
    /\ download' = NoClick
    /\ Render

\* the Back button ('confirm-image') and the Start Over button ('results-shown')
handleReset ==
    /\ \/ appState = "confirm-image" /\ sourceImage # NULL
       \/ appState = "results-shown"
    /\ PageClickable
    /\ sourceImage' = NULL
    /\ generatedImages' = EmptyImages
    /\ appState' = "select-image"
    /\ sliderValue' = InitialSlider
    /\ UNCHANGED <<isCameraOpen, resizing, cameraRequests, batches>>
    /\ download' = NoClick
    /\ Render

\* the range input changes: onSliderChange(parseFloat(e.target.value))
onSliderChange(value) ==
    /\ value \in SliderPositions
    /\ PageClickable
    /\ sliderValue' = value
    /\ UNCHANGED <<sourceImage, generatedImages, appState, isCameraOpen,
                   resizing, cameraRequests, batches>>
    /\ download' = NoClick
    /\ Render

\* the Download Image button (rendered in 'results-shown')
handleDownloadCurrentImage ==
    /\ appState = "results-shown"
    /\ PageClickable
    /\ download' = imageToDownload(generatedImages, sliderValue)
    /\ UNCHANGED <<sourceImage, generatedImages, sliderValue, appState,
                   isCameraOpen, resizing, cameraRequests, batches>>
    /\ Render

(***************************************************************************)
(* The specifications.                                                     *)
(***************************************************************************)
\* what the user and the camera do
UserStep ==
    \/ \E file \in Files : handleFileChange(file)
    \/ \E file \in Files, ok \in BOOLEAN : ResizeSettle(file, ok)
    \/ handleTakePhotoClick
    \/ \E ok \in BOOLEAN : GetUserMediaSettle(ok)
    \/ \E ctxOk \in BOOLEAN : handleCapture(ctxOk)
    \/ CancelCamera
    \/ handleReset
    \/ \E value \in SliderStops : onSliderChange(value)
    \/ handleDownloadCurrentImage

\* a click on Generate, while the model has runs left
Generate == Len(batches) < MaxBatches /\ GenerateButton /\ handleGenerateClick

\* a pending call settles, in any order and with any outcome
Settle ==
    \E b \in DOMAIN batches, i \in DOMAIN TIME_SHIFTS, outcome \in Outcomes :
        TaskSettle(b, i, outcome)

\* every interleaving of the user's events with the settling of the calls
Next == UserStep \/ Generate \/ Settle

Spec == Init /\ [][Next]_vars

\* the call a run's service answers next when it answers in the order of issue
Oldest(b) == CHOOSE i \in InFlight(b) : \A j \in InFlight(b) : i <= j

\* the interleavings in which the service answers the calls of a run in the
\* order they were issued, each with an image: fewer behaviours of the same
\* program, and more runs of handleGenerateClick
OrderedGenerate ==
    Len(batches) < MaxOrderedBatches /\ GenerateButton /\ handleGenerateClick

OrderedSettle ==
    \E b \in DOMAIN batches :
        InFlight(b) # {} /\ TaskSettle(b, Oldest(b), "resolve")

OrderedNext == UserStep \/ OrderedGenerate \/ OrderedSettle

OrderedSpec == Init /\ [][OrderedNext]_vars

\* the outcomes of the calls in FairSpec: an image, or an Error
FairOutcomes == {"resolve", "rejectError"}

FairSettle ==
    \E b \in DOMAIN batches, i \in DOMAIN TIME_SHIFTS, outcome \in FairOutcomes :
        TaskSettle(b, i, outcome)

FairNext == UserStep \/ Generate \/ FairSettle

\* every transformImageForTimePeriod call settles in the end
CallsSettle ==
    \A b \in 1..MaxBatches, i \in DOMAIN TIME_SHIFTS :
        WF_vars(\E outcome \in FairOutcomes : TaskSettle(b, i, outcome))

FairSpec == Init /\ [][FairNext]_vars /\ CallsSettle

\* the outcomes of a run that has resolved, as generatedImages holds them
ResolvedImages(failed) ==
    [l \in LabelSet |->
        LET i == CHOOSE j \in DOMAIN TIME_LABELS : TIME_LABELS[j] = l
        IN  IF i \in failed THEN Landed("rejectError", 1, i)
                            ELSE Landed("resolve", 1, i)]

\* the results of one run are shown, for each set of failed calls and each
\* position the slider can be at
MorpherInit ==
    /\ sourceImage = CapturedDataUrl
    /\ \E failed \in SUBSET DOMAIN TIME_SHIFTS :
          generatedImages = ResolvedImages(failed)
    /\ appState = "results-shown"
    /\ sliderValue \in SliderPositions \cup {InitialSlider}
    /\ isCameraOpen = FALSE
    /\ resizing = {}
    /\ cameraRequests = 0
    /\ batches = <<[i \in DOMAIN TIME_SHIFTS |-> "settled"]>>
    /\ opacities = ImageOpacities(appState, generatedImages, sliderValue)
    /\ download = NoClick

\* the slider moves by one step (the arrow keys)
MorpherNext == \E value \in {sliderValue - 1, sliderValue + 1} : onSliderChange(value)

MorpherSpec == MorpherInit /\ [][MorpherNext]_vars

\* the sources handleGenerateClick can be called with: none (null, or the
\* empty string), a captured frame, a resized file
HandlerSources ==
    {NULL, "", CapturedDataUrl} \cup {ResizedDataUrl(file) : file \in Files}

\* the page before a run: no source and 'select-image', or a source and
\* 'confirm-image'
HandlerInit ==
    /\ sourceImage \in HandlerSources
    /\ generatedImages = EmptyImages
    /\ sliderValue = InitialSlider
    /\ appState = IF NoSource(sourceImage) THEN "select-image" ELSE "confirm-image"
    /\ isCameraOpen = FALSE
    /\ resizing = {}
    /\ cameraRequests = 0
    /\ batches = <<>>
    /\ opacities = <<>>
    /\ download = NoClick

\* handleGenerateClick is called, whether its button is rendered or not,
\* when no earlier run has calls pending
Invoke ==
    /\ Len(batches) < MaxInvocations
    /\ \A b \in DOMAIN batches : InFlight(b) = {}
    /\ handleGenerateClick

HandlerNext == Invoke \/ Settle

\* the handler as a function of the state it is called in
HandlerSpec == HandlerInit /\ [][HandlerNext]_vars

(***************************************************************************)
(* Properties.                                                             *)
(***************************************************************************)
Labels == {TIME_LABELS[i] : i \in DOMAIN TIME_LABELS}

StatusOf(l) == generatedImages[l].status

Terminal(l) == l \in DOMAIN generatedImages /\ StatusOf(l) \in {"done", "error"}

\* the calls of run b that are pending in the list of runs bs
PendingCalls(bs, b) == {i \in DOMAIN TIME_SHIFTS : bs[b][i] = "inflight"}

\* the runs that have calls pending
LiveRuns == {b \in DOMAIN batches : PendingCalls(batches, b) # {}}

\* C1 (Terminality): whenever appState is 'results-shown', each of the six
\* labels has an entry in generatedImages whose status is 'done' or 'error'.
C1_Terminality ==
    appState = "results-shown" => \A l \in Labels : Terminal(l)

\* C2 (No early exit): a step that brings appState to 'results-shown' is the
\* step in which the last pending call of some run settles, and a step that
\* settles a call of a run which still has calls pending leaves appState as
\* it is, whatever the call's outcome.
C2_NoEarlyExit ==
    [][/\ (appState' = "results-shown" /\ appState # "results-shown") =>
             \E b \in DOMAIN batches :
                 /\ PendingCalls(batches, b) # {}
                 /\ PendingCalls(batches', b) = {}
       /\ \A b \in DOMAIN batches :
             (batches'[b] # batches[b] /\ PendingCalls(batches', b) # {}) =>
                 appState' = appState]_vars

\* five calls of the run have settled, some with an image and some with a
\* failure, and the run still waits for the sixth
C2_Witness ==
    /\ appState = "generating"
    /\ Cardinality(LiveRuns) = 1
    /\ \E b \in LiveRuns : Cardinality(PendingCalls(batches, b)) = 1
    /\ \E l \in Labels : l \in DOMAIN generatedImages /\ StatusOf(l) = "done"
    /\ \E l \in Labels : l \in DOMAIN generatedImages /\ StatusOf(l) = "error"

\* C3 (Isolation): the settling of a call sets the entry of its own label to
\* 'done' when the call resolved and to 'error' when it rejected, and leaves
\* the entry of every other label as it was (present with the same value, or
\* absent).
C3_Isolation ==
    [][\A b \in DOMAIN batches : \A i \in PendingCalls(batches, b), outcome \in Outcomes :
          (batches'[b][i] = "settled" /\ TaskSettle(b, i, outcome)) =>
              /\ TIME_LABELS[i] \in DOMAIN generatedImages'
              /\ generatedImages'[TIME_LABELS[i]].status =
                     IF outcome = "resolve" THEN "done" ELSE "error"
              /\ \A l \in Labels \ {TIME_LABELS[i]} :
                     /\ l \in DOMAIN generatedImages' <=> l \in DOMAIN generatedImages
                     /\ l \in DOMAIN generatedImages =>
                            generatedImages'[l] = generatedImages[l]]_vars

\* a failure has landed beside a success while other labels are still pending
C3_Witness ==
    /\ \E l \in Labels : l \in DOMAIN generatedImages /\ StatusOf(l) = "error"
    /\ \E l \in Labels : l \in DOMAIN generatedImages /\ StatusOf(l) = "done"
    /\ \E l \in Labels : l \in DOMAIN generatedImages /\ StatusOf(l) = "pending"

\* C4 (Failures never fail the batch): when every call settles in the end, a
\* run that has calls pending leads to a state where all its calls have
\* settled and appState is 'results-shown'.
C4_RunResolves ==
    \A b \in 1..MaxBatches :
        (b \in DOMAIN batches /\ PendingCalls(batches, b) # {})
            ~> /\ b \in DOMAIN batches
               /\ PendingCalls(batches, b) = {}
               /\ appState = "results-shown"

\* the results are shown of a run whose six calls all failed
C4_Witness ==
    /\ appState = "results-shown"
    /\ \A l \in Labels :
          /\ l \in DOMAIN generatedImages
          /\ StatusOf(l) = "error"
          /\ "error" \in DOMAIN generatedImages[l]

\* C5 (Per-item state machine): unless the step is handleReset, an entry
\* that is 'done' or 'error' stays as it is, and an entry changes only from
\* 'pending' to 'done' or 'error'.
C5_ItemStateMachine ==
    [][handleReset \/
       \A l \in DOMAIN generatedImages :
           /\ StatusOf(l) \in {"done", "error"} =>
                  l \in DOMAIN generatedImages' /\ generatedImages'[l] = generatedImages[l]
           /\ (l \in DOMAIN generatedImages' /\ generatedImages'[l] # generatedImages[l]) =>
                  /\ StatusOf(l) = "pending"
                  /\ generatedImages'[l].status \in {"done", "error"}]_vars

\* C6 (Stale results are ignored): a call that settles when handleReset has
\* left generatedImages empty leaves it empty and leaves appState as it is.
C6_StaleIgnored ==
    [][\A b \in DOMAIN batches : \A i \in PendingCalls(batches, b), outcome \in Outcomes :
          (generatedImages = EmptyImages /\ TaskSettle(b, i, outcome)) =>
              /\ generatedImages' = EmptyImages
              /\ appState' = appState]_vars

\* C7 (Single live batch): at most one run of handleGenerateClick has calls
\* pending.
C7_SingleLiveBatch == Cardinality(LiveRuns) <= 1

\* C8 (Item data invariant): a 'pending' entry has neither url nor error, a
\* 'done' entry has a url and no error, an 'error' entry has an error and no
\* url.
C8_ItemData ==
    \A l \in DOMAIN generatedImages :
        LET fields == DOMAIN generatedImages[l]
        IN  /\ StatusOf(l) = "pending" => fields = {"status"}
            /\ StatusOf(l) = "done" => fields = {"status", "url"}
            /\ StatusOf(l) = "error" => fields = {"status", "error"}
            /\ StatusOf(l) \in {"pending", "done", "error"}

\* the mapping holds an entry of each of the three kinds
C8_Witness ==
    /\ \E l \in DOMAIN generatedImages : StatusOf(l) = "pending"
    /\ \E l \in DOMAIN generatedImages :
          StatusOf(l) = "done" /\ generatedImages[l].url # ""
    /\ \E l \in DOMAIN generatedImages :
          StatusOf(l) = "error" /\ generatedImages[l].error = "Generation failed."

\* C9 (Batch coverage): the key set of generatedImages is empty or is exactly
\* the six labels.
C9_BatchCoverage == DOMAIN generatedImages \in {{}, Labels}

Max(a, b) == IF a >= b THEN a ELSE b

\* C10 (Weight formula): the opacity of the image at each index is
\* max(0, 1 - |cursor - index|) and lies in [0, 1].
C10_WeightFormula ==
    \A k \in DOMAIN opacities :
        LET d == IF sliderValue >= (k - 1) * 100 THEN sliderValue - (k - 1) * 100
                                                  ELSE (k - 1) * 100 - sliderValue
        IN  /\ opacities[k] = Max(0, 100 - d)
            /\ 0 <= opacities[k] /\ opacities[k] <= 100

\* six images are shown and the cursor is between the second and the third
C10_Witness ==
    /\ Len(opacities) = 6
    /\ sliderValue = 137
    /\ opacities = <<0, 63, 37, 0, 0, 0>>

\* C11 (Interpolation partition): when the cursor is strictly between the
\* indices i and i + 1 of two shown images, the opacities of these two
\* images add up to 1 and every other image has opacity 0.
C11_Partition ==
    \A i \in 0..(Len(opacities) - 2) :
        (i * 100 < sliderValue /\ sliderValue < (i + 1) * 100) =>
            /\ opacities[i + 1] + opacities[i + 2] = 100
            /\ \A k \in DOMAIN opacities \ {i + 1, i + 2} : opacities[k] = 0

\* the calls at indices 1 and 4 failed, four images are shown and the cursor
\* is half way between the second and the third of them
C11_Witness ==
    /\ generatedImages = ResolvedImages({2, 5})
    /\ sliderValue = 150
    /\ opacities = <<0, 50, 50, 0>>

\* C12 (Interpolation exactness): the image the cursor is exactly on has
\* opacity 1, and an image at distance 1 or more from the cursor has
\* opacity 0.
C12_Exactness ==
    \A k \in DOMAIN opacities :
        /\ sliderValue = (k - 1) * 100 => opacities[k] = 100
        /\ (sliderValue - (k - 1) * 100 >= 100 \/ (k - 1) * 100 - sliderValue >= 100)
               => opacities[k] = 0

\* the cursor is exactly on the fourth of six images: its neighbours are at
\* distance 1
C12_Witness ==
    /\ Len(opacities) = 6
    /\ sliderValue = 300
    /\ opacities = <<0, 0, 0, 100, 0, 0>>

\* the indices of the labels whose entry has status 'done'
DoneIndices ==
    {i \in DOMAIN TIME_LABELS :
        /\ TIME_LABELS[i] \in DOMAIN generatedImages
        /\ StatusOf(TIME_LABELS[i]) = "done"}

\* C13 (Order preservation): the successful images of ImageMorpher, and
\* those of handleDownloadCurrentImage, are the labels whose entry is 'done',
\* each with the url of its entry, in the order of TIME_LABELS: the k-th
\* successful image is the 'done' label that has k - 1 'done' labels before it.
C13_OrderPreserved ==
    LET shown      == successfulImages(generatedImages, TIME_LABELS)
        downloaded == downloadSuccessfulImages(generatedImages)
    IN  /\ Len(shown) = Cardinality(DoneIndices)
        /\ Len(downloaded) = Cardinality(DoneIndices)
        /\ \A i \in DoneIndices :
               LET k == Cardinality({j \in DoneIndices : j < i}) + 1
               IN  /\ shown[k].label = TIME_LABELS[i]
                   /\ shown[k].url = generatedImages[TIME_LABELS[i]].url
                   /\ downloaded[k].label = TIME_LABELS[i]
                   /\ downloaded[k].url = generatedImages[TIME_LABELS[i]].url

\* the results are shown of a run whose calls at indices 1 and 4 failed: four
\* images, in the order of the labels
C13_Witness ==
    /\ appState = "results-shown"
    /\ DOMAIN generatedImages = Labels
    /\ {i \in DOMAIN TIME_LABELS : StatusOf(TIME_LABELS[i]) = "error"} = {2, 5}
    /\ DoneIndices = {1, 3, 4, 6}
    /\ Len(opacities) = 4
    /\ LET shown == successfulImages(generatedImages, TIME_LABELS)
       IN  [k \in 1..4 |-> shown[k].label] =
               <<"-75 years", "-25 years", "+25 years", "+75 years">>

\* C14 (Degenerate single success): when one image is shown, the positions
\* of the slider are [0, 1] and at each of them the image has opacity 1.
C14_SingleSuccess ==
    Len(opacities) = 1 =>
        /\ SliderPositions = 0..100
        /\ sliderValue \in 0..100 => opacities[1] = 100

\* C15 (Cursor range): when the results are shown and some image succeeded,
\* sliderValue lies in [0, count - 1], or in [0, 1] when count < 2, count
\* being the number of successful images.
C15_CursorRange ==
    LET count == Len(successfulImages(generatedImages, TIME_LABELS))
    IN  (appState = "results-shown" /\ count >= 1) =>
            /\ 0 <= sliderValue
            /\ sliderValue <= (IF count >= 2 THEN (count - 1) * 100 ELSE 100)

\* C16 (Input-contract violation): handleGenerateClick called with no source
\* image (null, or the empty string) issues no call and leaves
\* generatedImages and appState as they are.
C16_NoSourceNoRun ==
    [][(NoSource(sourceImage) /\ handleGenerateClick) =>
          /\ batches' = batches
          /\ generatedImages' = generatedImages
          /\ appState' = appState]_vars

\* handleGenerateClick can be called and there is no source image
C16_Witness ==
    /\ sourceImage = NULL
    /\ batches = <<>>
    /\ ENABLED Invoke

\* C17 (Empty result set): when the results are shown and no entry is 'done',
\* no image is rendered (calculateOpacity is evaluated for no index), the
\* slider has no position to be moved to and handleDownloadCurrentImage finds
\* no image.
C17_EmptyResult ==
    (appState = "results-shown" /\ DoneIndices = {}) =>
        /\ opacities = <<>>
        /\ SliderPositions = {}
        /\ downloadSuccessfulImages(generatedImages) = <<>>

\* the six calls of the run have failed and its results are shown: the notice
\* "Sorry, no images could be generated." in place of the images and slider
C17_Witness ==
    /\ appState = "results-shown"
    /\ DOMAIN generatedImages = Labels
    /\ DoneIndices = {}
    /\ \A b \in DOMAIN batches : AllSettled(batches[b])
    /\ opacities = <<>>

\* C18 (No timeout): while a call of a run stays pending and appState is
\* 'generating', appState stays 'generating' and the entry of the call's
\* label stays 'pending'.
C18_HungCallStalls ==
    [][\A b \in DOMAIN batches : \A i \in PendingCalls(batches, b) :
          (batches'[b][i] = "inflight" /\ appState = "generating") =>
              /\ appState' = "generating"
              /\ TIME_LABELS[i] \in DOMAIN generatedImages'
              /\ generatedImages'[TIME_LABELS[i]].status = "pending"]_vars

\* C19 (Reset effect): a step that brings appState back to 'select-image'
\* (handleReset) sets sourceImage to null, generatedImages to the empty
\* mapping and sliderValue to 2; from then on generatedImages stays empty
\* until a run starts, and a run starts from the all-pending mapping.
C19_ResetEffect ==
    [][/\ (appState # "select-image" /\ appState' = "select-image") =>
             /\ sourceImage' = NULL
             /\ generatedImages' = EmptyImages
             /\ sliderValue' = 200
       /\ (generatedImages = EmptyImages /\ Len(batches') = Len(batches)) =>
             generatedImages' = EmptyImages
       /\ Len(batches') > Len(batches) =>
             generatedImages' = [l \in Labels |-> [status |-> "pending"]]]_vars

\* the part of C19 about the step of handleReset itself and about the start
\* of a run, without what lands in between
ResetStepEffect ==
    [][/\ (appState # "select-image" /\ appState' = "select-image") =>
             /\ sourceImage' = NULL
             /\ generatedImages' = EmptyImages
             /\ sliderValue' = 200
       /\ Len(batches') > Len(batches) =>
             generatedImages' = [l \in Labels |-> [status |-> "pending"]]]_vars

\* C20 (Something is always visible): when the results are shown and some
\* image succeeded, some image has an opacity greater than 0.
C20_SomethingVisible ==
    (appState = "results-shown" /\ DoneIndices # {}) =>
        \E k \in DOMAIN opacities : opacities[k] > 0

\* C21 (Download matches display): when the results are shown with some
\* successful image, a click on Download Image saves one image: the successful
\* image at the index nearest to sliderValue (a half rounded up), and no
\* image has a greater opacity than this one.
C21_DownloadMatchesDisplay ==
    (appState = "results-shown" /\ DoneIndices # {} /\ download.clicked) =>
        LET shown == successfulImages(generatedImages, TIME_LABELS)
        IN  /\ "href" \in DOMAIN download
            /\ \E k \in DOMAIN shown :
                   /\ (k - 1) * 100 - 50 <= sliderValue
                   /\ sliderValue < (k - 1) * 100 + 50
                   /\ download.href = shown[k].url
                   /\ \A j \in DOMAIN opacities : opacities[j] <= opacities[k]

\* the same, for a cursor within the indices of at least two successful
\* images
DownloadInRange ==
    LET count == Cardinality(DoneIndices)
    IN  (count >= 2 /\ sliderValue \in 0..((count - 1) * 100)) =>
            C21_DownloadMatchesDisplay

\* generatedImages holds, for each of the six labels, what the call of run b
\* for this label landed, and all the calls of run b have settled
ResultsOfRun(b) ==
    /\ PendingCalls(batches, b) = {}
    /\ DOMAIN generatedImages = Labels
    /\ \A i \in DOMAIN TIME_LABELS :
           generatedImages[TIME_LABELS[i]] \in
               {[status |-> "done", url |-> ResultUrl(b, i)],
                [status |-> "error", error |-> RejectMessage(b, i)],
                [status |-> "error", error |-> "Generation failed."]}

\* the results are shown, of one run, with the source image in place
ResultsInOrder ==
    appState = "results-shown" =>
        /\ sourceImage # NULL
        /\ \E b \in DOMAIN batches : ResultsOfRun(b)

\* C22 (App state ordering): appState becomes 'results-shown' only from
\* 'generating', and whenever it is 'results-shown' the source image is not
\* null and generatedImages holds the six results of one run whose calls
\* have all settled.
C22_StateOrdering ==
    [][/\ (appState' = "results-shown" /\ appState # "results-shown") =>
             appState = "generating"
       /\ ResultsInOrder']_vars

====
